---- MODULE Spec2Model ----
(***************************************************************************)
(* A model of the Dune Analytics MCP server: the session budget that the   *)
(* tools of src/main.py consult and update, the response cache used by     *)
(* DuneService, the result summaries and CSV export of DataProcessor, the  *)
(* result tools of src/main.py, the error classifier and the outlier rule. *)
(***************************************************************************)
EXTENDS Integers, Sequences, FiniteSets, TLC

VARIABLES
    limits,     \* BudgetConfig: max_queries, max_credits, max_schema_calls
    usage,      \* BudgetManager: queries, credits and schema calls used
    last,       \* the response of the most recent tool invocation
    req,        \* concurrent dispatch: the position of each request in flight
    cache,      \* CacheManager: (namespace, key) -> (value, insertion time)
    now,        \* the clock the cache reads
    lastSet,    \* history: the most recent set of each (namespace, key)
    got,        \* the most recent operation on the cache and what it returned
    platform,   \* the platform's state of each job
    upstreamQuery, \* the platform's current text of each query
    svc,        \* the most recent DuneService call and what it returned
    payload,    \* the result object a job's results were fetched as
    summary,    \* what process_results returned for it
    files,      \* the export directory: job id -> text of its CSV file
    exported,   \* what export_to_csv returned
    answer,     \* the most recent result tool invocation and what it answered
    diag,       \* the most recent analyze_query_error invocation
    series,     \* a numeric column handed to the outlier rule
    outliers,   \* the positions of the series the rule flagged
    started     \* history: the platform calls of the budgeted tools that succeeded

budgetVars == <<limits, usage, last, req>>
cacheVars == <<cache, now, lastSet, got>>
svcVars == <<platform, upstreamQuery, svc>>
dataVars == <<payload, summary, files, exported>>
toolVars == <<answer, diag, series, outliers>>
extVars == <<answer, diag, series, outliers, started>>
vars == <<limits, usage, last, req, cache, now, lastSet, got, platform,
          upstreamQuery, svc, payload, summary, files, exported,
          answer, diag, series, outliers, started>>

(***************************************************************************)
(* Configuration (src/config.py).                                          *)
(***************************************************************************)
MAX_QUERIES == 5
MAX_CREDITS == 100
MAX_SCHEMA_CALLS == 3

\* Limits read from the environment range over 1..EnvLimit besides the defaults.
EnvLimit == 2
\* Estimated costs tried against the budget check range over 0..MaxCost.
MaxCost == 2
\* Requests the host may have in flight at once.
MaxRequests == 2

QueryLimits == (1..EnvLimit) \cup {MAX_QUERIES}
CreditLimits == (1..EnvLimit) \cup {MAX_CREDITS}
SchemaLimits == (1..EnvLimit) \cup {MAX_SCHEMA_CALLS}
Costs == 0..MaxCost
Req == 1..MaxRequests

BudgetConfig(q, c, s) == [queries |-> q, credits |-> c, schema_calls |-> s]
DefaultLimits == BudgetConfig(MAX_QUERIES, MAX_CREDITS, MAX_SCHEMA_CALLS)
ZeroUsage == [queries |-> 0, credits |-> 0, schema_calls |-> 0]

(***************************************************************************)
(* BudgetManager (src/services/budget_manager.py is not part of the        *)
(* sources; its three operations follow the governor's contract).          *)
(***************************************************************************)
NoReason == [dimension |-> "none", excess |-> 0]

\* authorize(query-execution, estimated_cost): the totals that granting the
\* request would produce, compared with the limits; no mutation.
check_can_execute_query(u, l, estimated_cost) ==
    LET would == [queries |-> u.queries + 1,
                  credits |-> u.credits + estimated_cost,
                  schema_calls |-> u.schema_calls]
    IN  IF would.queries > l.queries
        THEN [ok |-> FALSE, dimension |-> "queries",
              excess |-> would.queries - l.queries]
        ELSE IF would.credits > l.credits
        THEN [ok |-> FALSE, dimension |-> "credits",
              excess |-> would.credits - l.credits]
        ELSE IF would.schema_calls > l.schema_calls
        THEN [ok |-> FALSE, dimension |-> "schema_calls",
              excess |-> would.schema_calls - l.schema_calls]
        ELSE [ok |-> TRUE, dimension |-> "none", excess |-> 0]

\* commit(query-execution, cost)
track_execution(u, cost) ==
    [u EXCEPT !.queries = @ + 1, !.credits = @ + cost]

\* status(): a read-only snapshot
BudgetManager_get_status(u, l) ==
    [queries |-> [used |-> u.queries, limit |-> l.queries],
     credits |-> [used |-> u.credits, limit |-> l.credits],
     schema_calls |-> [used |-> u.schema_calls, limit |-> l.schema_calls]]

NoStatus == BudgetManager_get_status(
    [queries |-> -1, credits |-> -1, schema_calls |-> -1],
    [queries |-> -1, credits |-> -1, schema_calls |-> -1])

(***************************************************************************)
(* Tool responses.                                                         *)
(***************************************************************************)
Response(tool, text, reason, upstream, pre, status) ==
    [tool |-> tool, text |-> text, reason |-> reason, upstream |-> upstream,
     pre |-> pre, status |-> status]

NoResponse == Response("none", "", NoReason, 0, ZeroUsage, NoStatus)

ExecuteOutcomes == {"ok", "raise"}
SchemaOutcomes == {"ok", "no_result", "raise"}

(***************************************************************************)
(* The tools of src/main.py, one request at a time.  `outcome` is what the *)
(* platform does if it is called.                                          *)
(***************************************************************************)
\* mutants of execute_query
execute_query_track_first(outcome) ==
    LET tracked == track_execution(usage, 0)
        chk == check_can_execute_query(tracked, limits, 0)
    IN  /\ usage' = tracked
        /\ last' = IF ~chk.ok
                   THEN Response("execute_query", "EXECUTION DENIED",
                            [dimension |-> chk.dimension, excess |-> chk.excess],
                            0, usage, NoStatus)
                   ELSE IF outcome = "raise"
                   THEN Response("execute_query", "Error executing query",
                            NoReason, 1, usage, NoStatus)
                   ELSE Response("execute_query", "Execution started",
                            NoReason, 1, usage, NoStatus)
        /\ UNCHANGED <<limits, req>>

execute_query_generic_error(outcome) ==
    LET chk == check_can_execute_query(usage, limits, 0)
    IN  /\ IF ~chk.ok
           THEN /\ last' = Response("execute_query", "Error executing query",
                               NoReason, 0, usage, NoStatus)
                /\ UNCHANGED usage
           ELSE IF outcome = "raise"
           THEN /\ last' = Response("execute_query", "Error executing query",
                               NoReason, 1, usage, NoStatus)
                /\ UNCHANGED usage
           ELSE /\ usage' = track_execution(usage, 0)
                /\ last' = Response("execute_query", "Execution started",
                               NoReason, 1, usage, NoStatus)
        /\ UNCHANGED <<limits, req>>

execute_query_tracks_credit(outcome) ==
    LET chk == check_can_execute_query(usage, limits, 0)
    IN  /\ IF ~chk.ok
           THEN /\ last' = Response("execute_query", "EXECUTION DENIED",
                               [dimension |-> chk.dimension, excess |-> chk.excess],
                               0, usage, NoStatus)
                /\ UNCHANGED usage
           ELSE IF outcome = "raise"
           THEN /\ last' = Response("execute_query", "Error executing query",
                               NoReason, 1, usage, NoStatus)
                /\ UNCHANGED usage
           ELSE /\ usage' = track_execution(usage, 1)
                /\ last' = Response("execute_query", "Execution started",
                               NoReason, 1, usage, NoStatus)
        /\ UNCHANGED <<limits, req>>

execute_query(outcome) ==
    LET chk == check_can_execute_query(usage, limits, 0)
    IN  /\ IF ~chk.ok
           THEN \* except BudgetExceededError
                /\ last' = Response("execute_query", "EXECUTION DENIED",
                               [dimension |-> chk.dimension, excess |-> chk.excess],
                               0, usage, NoStatus)
                /\ UNCHANGED usage
           ELSE IF outcome = "raise"
           THEN \* except Exception: dune_service.execute_query raised
                /\ last' = Response("execute_query", "Error executing query",
                               NoReason, 1, usage, NoStatus)
                /\ UNCHANGED usage
           ELSE /\ usage' = track_execution(usage, 0)
                /\ last' = Response("execute_query", "Execution started",
                               NoReason, 1, usage, NoStatus)
        /\ UNCHANGED <<limits, req>>

\* mutant of get_table_schema: the spend is tracked before the platform is called
get_table_schema_tracks_failure(outcome) ==
    LET chk == check_can_execute_query(usage, limits, 1)
    IN  /\ IF ~chk.ok
           THEN /\ last' = Response("get_table_schema", "SCHEMA ACCESS DENIED",
                               [dimension |-> chk.dimension, excess |-> chk.excess],
                               0, usage, NoStatus)
                /\ UNCHANGED usage
           ELSE /\ usage' = track_execution(usage, 1)
                /\ last' = Response("get_table_schema",
                               IF outcome = "raise" THEN "Error fetching schema"
                               ELSE "Schema for",
                               NoReason, 1, usage, NoStatus)
        /\ UNCHANGED <<limits, req>>

\* mutant of get_table_schema: the platform is called before the budget is checked
get_table_schema_calls_first(outcome) ==
    LET chk == check_can_execute_query(usage, limits, 1)
    IN  /\ IF outcome = "raise"
           THEN /\ last' = Response("get_table_schema", "Error fetching schema",
                               NoReason, 1, usage, NoStatus)
                /\ UNCHANGED usage
           ELSE IF ~chk.ok
           THEN /\ last' = Response("get_table_schema", "SCHEMA ACCESS DENIED",
                               [dimension |-> chk.dimension, excess |-> chk.excess],
                               1, usage, NoStatus)
                /\ UNCHANGED usage
           ELSE /\ usage' = track_execution(usage, 1)
                /\ last' = Response("get_table_schema", "Schema for",
                               NoReason, 1, usage, NoStatus)
        /\ UNCHANGED <<limits, req>>

\* mutant of get_table_schema: the check made with the estimate of execute_query
get_table_schema_zero_estimate(outcome) ==
    LET chk == check_can_execute_query(usage, limits, 0)
    IN  /\ IF ~chk.ok
           THEN /\ last' = Response("get_table_schema", "SCHEMA ACCESS DENIED",
                               [dimension |-> chk.dimension, excess |-> chk.excess],
                               0, usage, NoStatus)
                /\ UNCHANGED usage
           ELSE IF outcome = "raise"
           THEN /\ last' = Response("get_table_schema", "Error fetching schema",
                               NoReason, 1, usage, NoStatus)
                /\ UNCHANGED usage
           ELSE /\ usage' = track_execution(usage, 1)
                /\ last' = Response("get_table_schema", "Schema for",
                               NoReason, 1, usage, NoStatus)
        /\ UNCHANGED <<limits, req>>

get_table_schema(outcome) ==
    LET chk == check_can_execute_query(usage, limits, 1)
    IN  /\ IF ~chk.ok
           THEN \* except BudgetExceededError
                /\ last' = Response("get_table_schema", "SCHEMA ACCESS DENIED",
                               [dimension |-> chk.dimension, excess |-> chk.excess],
                               0, usage, NoStatus)
                /\ UNCHANGED usage
           ELSE IF outcome = "raise"
           THEN \* except Exception: run_sql raised
                /\ last' = Response("get_table_schema", "Error fetching schema",
                               NoReason, 1, usage, NoStatus)
                /\ UNCHANGED usage
           ELSE \* "ok", or "no_result": the service returned its error
                \* dictionary, which has no "columns"; either way the call is tracked
                /\ usage' = track_execution(usage, 1)
                /\ last' = Response("get_table_schema", "Schema for",
                               NoReason, 1, usage, NoStatus)
        /\ UNCHANGED <<limits, req>>

get_session_budget ==
    /\ last' = Response("get_session_budget", "Session Budget", NoReason, 0,
                   usage, BudgetManager_get_status(usage, limits))
    /\ UNCHANGED <<limits, usage, req>>

(***************************************************************************)
(* CacheManager (src/services/cache.py is not part of the sources; get and *)
(* set follow the cache's contract: expiry by age per namespace, expired   *)
(* entries purged by the read that finds them).                            *)
(***************************************************************************)
\* Time-to-live of the two namespaces DuneService uses, in clock ticks.
QueryTtl == 2
StatusTtl == 1
\* The clock runs from 0 to MaxTime.
MaxTime == 4

QueryIds == {1}
JobIds == {"1", "2"}
Namespaces == {"query", "status"}
CacheKeys == {<<"query", ToString(q)>> : q \in QueryIds}
                 \cup {<<"status", j>> : j \in JobIds}

Absent == "None"
NoEntry == [value |-> Absent, at |-> -1]

TimeToLive(namespace) == IF namespace = "status" THEN StatusTtl ELSE QueryTtl

Expired(entry, namespace, t) == t - entry.at > TimeToLive(namespace)

\* mutant of cache_get: an entry as old as its time-to-live is already gone
cache_get_expires_early(c, namespace, key, t) ==
    IF c[<<namespace, key>>] = NoEntry
           \/ t - c[<<namespace, key>>].at >= TimeToLive(namespace)
    THEN Absent
    ELSE c[<<namespace, key>>].value

\* get(namespace, key): the value, or Absent
cache_get(c, namespace, key, t) ==
    IF c[<<namespace, key>>] = NoEntry
           \/ Expired(c[<<namespace, key>>], namespace, t)
    THEN Absent
    ELSE c[<<namespace, key>>].value

\* the store after get(namespace, key): an expired entry is dropped
cache_purge(c, namespace, key, t) ==
    IF c[<<namespace, key>>] # NoEntry
           /\ Expired(c[<<namespace, key>>], namespace, t)
    THEN [c EXCEPT ![<<namespace, key>>] = NoEntry]
    ELSE c

\* set(namespace, key, value): unconditional upsert, age zero
cache_set(c, namespace, key, value, t) ==
    [c EXCEPT ![<<namespace, key>>] = [value |-> value, at |-> t]]

CacheOp(op, namespace, key, value) ==
    [op |-> op, namespace |-> namespace, key |-> key, value |-> value]

CacheInit ==
    /\ cache = [ck \in CacheKeys |-> NoEntry]
    /\ now = 0
    /\ lastSet = [ck \in CacheKeys |-> NoEntry]
    /\ got = CacheOp("none", "", "", Absent)

(***************************************************************************)
(* The cache on its own: any caller, any value, the clock advancing.       *)
(***************************************************************************)
CacheValues == {"v1", "v2"}

CacheSet(namespace, key, value) ==
    /\ cache' = cache_set(cache, namespace, key, value, now)
    /\ lastSet' = [lastSet EXCEPT ![<<namespace, key>>] =
                       [value |-> value, at |-> now]]
    /\ got' = CacheOp("set", namespace, key, value)
    /\ UNCHANGED now

CacheGet(namespace, key) ==
    /\ got' = CacheOp("get", namespace, key, cache_get(cache, namespace, key, now))
    /\ cache' = cache_purge(cache, namespace, key, now)
    /\ UNCHANGED <<now, lastSet>>

Tick ==
    /\ now < MaxTime
    /\ now' = now + 1
    /\ got' = CacheOp("tick", "", "", Absent)
    /\ UNCHANGED <<cache, lastSet>>

NextCache ==
    \/ \E ck \in CacheKeys, v \in CacheValues :
           CacheSet(ck[1], ck[2], v) /\ UNCHANGED <<budgetVars, svcVars, dataVars, extVars>>
    \/ \E ck \in CacheKeys :
           CacheGet(ck[1], ck[2]) /\ UNCHANGED <<budgetVars, svcVars, dataVars, extVars>>
    \/ Tick /\ UNCHANGED <<budgetVars, svcVars, dataVars, extVars>>

(***************************************************************************)
(* DuneService (src/services/dune_client.py).                              *)
(***************************************************************************)
\* dune_client's ExecutionState members the platform reports for a job
ExecutionStates == {"PENDING", "EXECUTING", "COMPLETED", "FAILED", "CANCELLED"}
FinishedStates == {"COMPLETED", "FAILED", "CANCELLED"}
QueryTexts == {"sql_v1", "sql_v2"}
Raised == "<exception>"
ServiceOutcomes == {"ok", "raise"}

\* str(state) of an Enum member
EnumStr(member) == "ExecutionState." \o member

\* s.replace(old, "")
RECURSIVE StrRemove(_, _)
StrRemove(s, old) ==
    IF Len(s) < Len(old) \/ Len(old) = 0 THEN s
    ELSE IF SubSeq(s, 1, Len(old)) = old
    THEN StrRemove(SubSeq(s, Len(old) + 1, Len(s)), old)
    ELSE SubSeq(s, 1, 1) \o StrRemove(SubSeq(s, 2, Len(s)), old)

\* `if cached:`
Truthy(value) == value # Absent /\ value # ""

ServiceCall(op, key, result, upstream) ==
    [op |-> op, key |-> key, result |-> result, upstream |-> upstream]

ServiceInit ==
    /\ platform = [j \in JobIds |-> "PENDING"]
    /\ upstreamQuery = [q \in QueryIds |-> "sql_v1"]
    /\ svc = ServiceCall("none", "", Absent, 0)

\* mutant of get_status: the status is cached whatever it is
get_status_caches_all(job_id, outcome) ==
    LET cached == cache_get(cache, "status", job_id, now)
        purged == cache_purge(cache, "status", job_id, now)
        state_str == StrRemove(EnumStr(platform[job_id]), "ExecutionState.")
    IN  /\ IF Truthy(cached)
           THEN /\ svc' = ServiceCall("get_status", job_id, cached, 0)
                /\ cache' = purged
           ELSE IF outcome = "raise"
           THEN /\ svc' = ServiceCall("get_status", job_id, Raised, 1)
                /\ cache' = purged
           ELSE /\ cache' = cache_set(purged, "status", job_id, state_str, now)
                /\ svc' = ServiceCall("get_status", job_id, state_str, 1)
        /\ UNCHANGED <<now, lastSet, got, platform, upstreamQuery>>

get_status(job_id, outcome) ==
    LET cached == cache_get(cache, "status", job_id, now)
        purged == cache_purge(cache, "status", job_id, now)
        state_str == StrRemove(EnumStr(platform[job_id]), "ExecutionState.")
    IN  /\ IF Truthy(cached)
           THEN /\ svc' = ServiceCall("get_status", job_id, cached, 0)
                /\ cache' = purged
           ELSE IF outcome = "raise"
           THEN \* client.get_execution_status raised
                /\ svc' = ServiceCall("get_status", job_id, Raised, 1)
                /\ cache' = purged
           ELSE /\ cache' = IF state_str \in {"COMPLETED", "FAILED", "CANCELLED"}
                            THEN cache_set(purged, "status", job_id, state_str, now)
                            ELSE purged
                /\ svc' = ServiceCall("get_status", job_id, state_str, 1)
        /\ UNCHANGED <<now, lastSet, got, platform, upstreamQuery>>

\* mutant of get_query: the serialized query is returned without being stored
get_query_no_store(query_id, outcome) ==
    LET cache_key == ToString(query_id)
        cached == cache_get(cache, "query", cache_key, now)
        purged == cache_purge(cache, "query", cache_key, now)
        data == upstreamQuery[query_id]
    IN  /\ cache' = purged
        /\ svc' = IF Truthy(cached)
                  THEN ServiceCall("get_query", cache_key, cached, 0)
                  ELSE IF outcome = "raise"
                  THEN ServiceCall("get_query", cache_key, Raised, 1)
                  ELSE ServiceCall("get_query", cache_key, data, 1)
        /\ UNCHANGED <<now, lastSet, got, platform, upstreamQuery>>

get_query(query_id, outcome) ==
    LET cache_key == ToString(query_id)
        cached == cache_get(cache, "query", cache_key, now)
        purged == cache_purge(cache, "query", cache_key, now)
        data == upstreamQuery[query_id]
    IN  /\ IF Truthy(cached)
           THEN /\ svc' = ServiceCall("get_query", cache_key, cached, 0)
                /\ cache' = purged
           ELSE IF outcome = "raise"
           THEN \* client.get_query raised: logged and raised again
                /\ svc' = ServiceCall("get_query", cache_key, Raised, 1)
                /\ cache' = purged
           ELSE /\ cache' = cache_set(purged, "query", cache_key, data, now)
                /\ svc' = ServiceCall("get_query", cache_key, data, 1)
        /\ UNCHANGED <<now, lastSet, got, platform, upstreamQuery>>

(***************************************************************************)
(* The platform: a job goes from pending through executing to one of the   *)
(* finished states and stays there; a query's text may be edited.          *)
(***************************************************************************)
JobStep(job_id, state) ==
    /\ \/ platform[job_id] = "PENDING" /\ state \in ExecutionStates \ {"PENDING"}
       \/ platform[job_id] = "EXECUTING" /\ state \in FinishedStates
    /\ platform' = [platform EXCEPT ![job_id] = state]
    /\ UNCHANGED <<cacheVars, upstreamQuery, svc>>

EditQuery(query_id) ==
    /\ upstreamQuery[query_id] = "sql_v1"
    /\ upstreamQuery' = [upstreamQuery EXCEPT ![query_id] = "sql_v2"]
    /\ UNCHANGED <<cacheVars, platform, svc>>

NextService ==
    \/ \E j \in JobIds, o \in ServiceOutcomes :
           get_status(j, o) /\ UNCHANGED <<budgetVars, dataVars, extVars>>
    \/ \E q \in QueryIds, o \in ServiceOutcomes :
           get_query(q, o) /\ UNCHANGED <<budgetVars, dataVars, extVars>>
    \/ \E j \in JobIds, st \in ExecutionStates :
           JobStep(j, st) /\ UNCHANGED <<budgetVars, dataVars, extVars>>
    \/ \E q \in QueryIds :
           EditQuery(q) /\ UNCHANGED <<budgetVars, dataVars, extVars>>
    \/ Tick /\ UNCHANGED <<budgetVars, svcVars, dataVars, extVars>>

(***************************************************************************)
(* Result payloads.  A row is a Python dict, kept as its items in          *)
(* insertion order: a sequence of <<key, value>> pairs with distinct keys. *)
(* A value carries its Python type, its str() and, for a number, its       *)
(* numeric value.                                                          *)
(***************************************************************************)
\* A result holds at most MaxRows rows.
MaxRows == 2

ColumnNames == {"a", "b"}
IntValue(n) == [t |-> "int", v |-> ToString(n), n |-> n]
StrValue(text) == [t |-> "str", v |-> text, n |-> 0]
None == [t |-> "None", v |-> "None", n |-> 0]
NaN == [t |-> "float", v |-> "nan", n |-> 0]
FloatValue(n) == [t |-> "float", v |-> ToString(n) \o ".0", n |-> n]
CellValues == {IntValue(1), StrValue("x,y"), None}

RowDicts ==
    {<<<<k, v>>>> : k \in ColumnNames, v \in CellValues}
        \cup {row \in {<<<<k1, v1>>, <<k2, v2>>>> :
                           k1 \in ColumnNames, k2 \in ColumnNames,
                           v1 \in CellValues, v2 \in CellValues} :
                 row[1][1] # row[2][1]}

RowLists == UNION {[1..n -> RowDicts] : n \in 0..MaxRows}

\* What process_results and export_to_csv may be handed: a ResultsResponse
\* whose result has rows (what DuneService.get_result returns for a finished
\* job); one whose result has rows = None; one whose result is None; None; a
\* bare list of rows, here of at most one row; some other object (a dict, a
\* string).
Payloads ==
    {[shape |-> "response", rows |-> rs] : rs \in RowLists}
        \cup {[shape |-> "list", rows |-> rs] :
                 rs \in {<<>>} \cup {<<row>> : row \in RowDicts}}
        \cup {[shape |-> sh, rows |-> <<>>] :
                 sh \in {"rows_none", "result_none", "none", "other"}}

\* try: rows = result_data.result.rows
\* except AttributeError: rows = result_data if isinstance(result_data, list) else []
\* (rows = None is kept as the empty list: the one use of it is `if not rows`)
ExtractRows(result_data) ==
    IF result_data.shape \in {"response", "rows_none"}
    THEN result_data.rows
    ELSE IF result_data.shape = "list" THEN result_data.rows ELSE <<>>

(***************************************************************************)
(* pandas, as far as DataProcessor uses it.                                *)
(***************************************************************************)
DictKeys(row) == [i \in 1..Len(row) |-> row[i][1]]

DictHas(row, key) == \E i \in 1..Len(row) : row[i][1] = key

DictGet(row, key) == row[CHOOSE i \in 1..Len(row) : row[i][1] = key][2]

SeqRange(seq) == {seq[i] : i \in 1..Len(seq)}

\* the keys of `keys` not yet in `columns`, appended in order
RECURSIVE AppendNew(_, _)
AppendNew(columns, keys) ==
    IF keys = <<>> THEN columns
    ELSE AppendNew(IF Head(keys) \in SeqRange(columns) THEN columns
                   ELSE Append(columns, Head(keys)),
                   Tail(keys))

\* the columns of pd.DataFrame(rows): every key, in order of first appearance
RECURSIVE FrameColumns(_)
\* mutant of FrameColumns: the columns are the keys of the first row
FrameColumns_first_row(rows) ==
    IF rows = <<>> THEN <<>> ELSE DictKeys(rows[1])

FrameColumns(rows) ==
    IF rows = <<>> THEN <<>>
    ELSE AppendNew(FrameColumns(SubSeq(rows, 1, Len(rows) - 1)),
                   DictKeys(rows[Len(rows)]))

IsNA(value) == value = None \/ value = NaN

\* the values of a column as given: NaN where the row has no such key
RawColumn(rows, column) ==
    [r \in 1..Len(rows) |->
        IF DictHas(rows[r], column) THEN DictGet(rows[r], column) ELSE NaN]

\* the dtype pandas infers for a column
Dtype(rows, column) ==
    LET given == SeqRange(RawColumn(rows, column))
        present == {value \in given : ~IsNA(value)}
    IN  IF present # {} /\ \A value \in present : value.t = "int"
        THEN IF given = present THEN "int64" ELSE "float64"
        ELSE "object"

\* a value as the frame holds it
Coerce(value, dtype) ==
    IF dtype = "float64"
    THEN IF IsNA(value) THEN NaN ELSE FloatValue(value.n)
    ELSE value

DataFrame(rows) ==
    LET columns == FrameColumns(rows)
        dtypes == [c \in 1..Len(columns) |-> Dtype(rows, columns[c])]
        raw == [c \in 1..Len(columns) |-> RawColumn(rows, columns[c])]
    IN  [columns |-> columns,
         dtypes |-> dtypes,
         data |-> [r \in 1..Len(rows) |->
                     [c \in 1..Len(columns) |-> Coerce(raw[c][r], dtypes[c])]]]

\* df.select_dtypes(include=['number']).columns
NumericColumns(df) ==
    SelectSeq([c \in 1..Len(df.columns) |-> c],
              LAMBDA c : df.dtypes[c] \in {"int64", "float64"})

Min(set) == CHOOSE x \in set : \A y \in set : x <= y
Max(set) == CHOOSE x \in set : \A y \in set : x >= y

RECURSIVE SeqSum(_)
SeqSum(seq) == IF seq = <<>> THEN 0 ELSE Head(seq) + SeqSum(Tail(seq))

\* min, max and mean of a numeric column, NaN skipped; the mean is kept as
\* the pair <<sum, count>>
ColumnStats(df, c) ==
    LET numbers == SelectSeq([r \in 1..Len(df.data) |-> df.data[r][c]],
                             LAMBDA value : ~IsNA(value))
        ns == [i \in 1..Len(numbers) |-> numbers[i].n]
    IN  [min |-> Min(SeqRange(ns)), max |-> Max(SeqRange(ns)),
         avg |-> <<SeqSum(ns), Len(ns)>>]

\* df.head(limit).to_dict(orient="records")
HeadRecords(df, limit) ==
    [r \in 1..(IF Len(df.data) < limit THEN Len(df.data) ELSE limit) |->
        [c \in 1..Len(df.columns) |-> <<df.columns[c], df.data[r][c]>>]]

(***************************************************************************)
(* DataProcessor.process_results (src/services/data_processor.py).         *)
(***************************************************************************)
PREVIEW_LIMIT == 5

\* A returned dict: `keys` are the keys it has.
NoSummary ==
    [keys |-> {}, row_count |-> -1, columns |-> <<>>, preview |-> <<>>,
     summary_stats |-> <<>>, summary |-> ""]

\* mutant of process_results: no early return for a result without rows
process_results_no_guard(result_data, limit) ==
    LET rows == ExtractRows(result_data)
        df == DataFrame(rows)
        numeric_cols == NumericColumns(df)
    IN  [keys |-> {"row_count", "columns", "preview", "summary_stats"},
         row_count |-> Len(df.data),
         columns |-> df.columns,
         preview |-> HeadRecords(df, limit),
         summary_stats |->
             [i \in 1..Len(numeric_cols) |->
                 <<df.columns[numeric_cols[i]], ColumnStats(df, numeric_cols[i])>>],
         summary |-> ""]

process_results(result_data, limit) ==
    LET rows == ExtractRows(result_data)
        df == DataFrame(rows)
        numeric_cols == NumericColumns(df)
    IN  IF rows = <<>>
        THEN [keys |-> {"row_count", "preview", "summary"},
              row_count |-> 0,
              columns |-> <<>>,
              preview |-> <<>>,
              summary_stats |-> <<>>,
              summary |-> "No data returned."]
        ELSE [keys |-> {"row_count", "columns", "preview", "summary_stats"},
              row_count |-> Len(df.data),
              columns |-> df.columns,
              preview |-> HeadRecords(df, limit),
              summary_stats |->
                  [i \in 1..Len(numeric_cols) |->
                      <<df.columns[numeric_cols[i]],
                        ColumnStats(df, numeric_cols[i])>>],
              summary |-> ""]

NoFile == "<no file>"

(***************************************************************************)
(* df.to_csv(filepath, index=False): the csv module's writer with minimal  *)
(* quoting, "\n" line ends; and a reader of the same dialect.              *)
(***************************************************************************)
Comma == ","
Quote == "\""
Newline == "\n"

StrContains(text, ch) == \E i \in 1..Len(text) : SubSeq(text, i, i) = ch

RECURSIVE DoubleQuotes(_)
DoubleQuotes(text) ==
    IF text = "" THEN ""
    ELSE (IF SubSeq(text, 1, 1) = Quote THEN Quote \o Quote ELSE SubSeq(text, 1, 1))
             \o DoubleQuotes(SubSeq(text, 2, Len(text)))

CsvField(text) ==
    IF StrContains(text, Comma) \/ StrContains(text, Quote)
           \/ StrContains(text, Newline) \/ StrContains(text, "\r")
    THEN Quote \o DoubleQuotes(text) \o Quote
    ELSE text

RECURSIVE JoinFields(_)
JoinFields(fields) ==
    IF fields = <<>> THEN ""
    ELSE IF Len(fields) = 1 THEN CsvField(fields[1])
    ELSE CsvField(fields[1]) \o Comma \o JoinFields(Tail(fields))

\* one record; a record of a single empty field is written as ""
CsvLine(fields) ==
    (IF fields = <<"">> THEN Quote \o Quote ELSE JoinFields(fields)) \o Newline

\* a value as to_csv writes it: NaN and None as the empty string
CsvText(value) == IF IsNA(value) THEN "" ELSE value.v

RECURSIVE CsvLines(_)
CsvLines(records) ==
    IF records = <<>> THEN "" ELSE CsvLine(Head(records)) \o CsvLines(Tail(records))

to_csv(df, index) ==
    LET lead(text) == IF index THEN <<text>> ELSE <<>>
        header == lead("") \o df.columns
        body == [r \in 1..Len(df.data) |->
                    lead(ToString(r - 1))
                        \o [c \in 1..Len(df.columns) |-> CsvText(df.data[r][c])]]
    IN  CsvLines(<<header>> \o body)

\* csv.reader over the text from position i: `field` and `record` are the
\* field and the record being read, `quoted` whether inside a quoted field
RECURSIVE ReadCsv(_, _, _, _, _)
ReadCsv(text, i, field, record, quoted) ==
    IF i > Len(text)
    THEN IF field = "" /\ record = <<>> THEN <<>> ELSE <<Append(record, field)>>
    ELSE LET ch == SubSeq(text, i, i)
         IN  IF quoted
             THEN IF ch = Quote
                  THEN IF i < Len(text) /\ SubSeq(text, i + 1, i + 1) = Quote
                       THEN ReadCsv(text, i + 2, field \o Quote, record, TRUE)
                       ELSE ReadCsv(text, i + 1, field, record, FALSE)
                  ELSE ReadCsv(text, i + 1, field \o ch, record, TRUE)
             ELSE IF ch = Quote
                  THEN ReadCsv(text, i + 1, field, record, TRUE)
                  ELSE IF ch = Comma
                  THEN ReadCsv(text, i + 1, "", Append(record, field), FALSE)
                  ELSE IF ch = Newline
                  THEN <<Append(record, field)>>
                           \o ReadCsv(text, i + 1, "", <<>>, FALSE)
                  ELSE ReadCsv(text, i + 1, field \o ch, record, FALSE)

ParseCsv(text) == ReadCsv(text, 1, "", <<>>, FALSE)

(***************************************************************************)
(* DataProcessor.export_to_csv.                                            *)
(***************************************************************************)
EXPORT_DIR == "./dune_exports"
FilePath(job_id) == EXPORT_DIR \o "/" \o "dune_results_" \o job_id \o ".csv"
FilePaths == {FilePath(j) : j \in JobIds}

\* mutant of export_to_csv: to_csv left at its default index=True
export_to_csv_with_index(result_data, job_id) ==
    LET rows == ExtractRows(result_data)
    IN  IF rows = <<>>
        THEN [returns |-> "No data to export", writes |-> FALSE,
              filepath |-> "", text |-> ""]
        ELSE [returns |-> FilePath(job_id), writes |-> TRUE,
              filepath |-> FilePath(job_id),
              text |-> to_csv(DataFrame(rows), TRUE)]

\* what export_to_csv returns and what it writes where
export_to_csv(result_data, job_id) ==
    LET rows == ExtractRows(result_data)
    IN  IF rows = <<>>
        THEN [returns |-> "No data to export", writes |-> FALSE,
              filepath |-> "", text |-> ""]
        ELSE [returns |-> FilePath(job_id), writes |-> TRUE,
              filepath |-> FilePath(job_id),
              text |-> to_csv(DataFrame(rows), FALSE)]

ExportToCsv(job_id) ==
    \E done \in {export_to_csv(payload, job_id)} :
        /\ exported' = done.returns
        /\ files' = IF done.writes
                    THEN [files EXCEPT ![done.filepath] = done.text]
                    ELSE files
        /\ UNCHANGED <<payload, summary>>

DataIdle ==
    /\ summary = NoSummary
    /\ files = [f \in FilePaths |-> NoFile]
    /\ exported = ""

DataInit ==
    /\ payload = [shape |-> "none", rows |-> <<>>]
    /\ DataIdle

ProcessResults(limit) ==
    /\ summary' = process_results(payload, limit)
    /\ UNCHANGED <<payload, files, exported>>

(***************************************************************************)
(* The session, requests processed one at a time.                          *)
(***************************************************************************)
IdleRequests == [r \in Req |-> [pc |-> "idle", tool |-> "none"]]

BudgetInit ==
    /\ limits \in {BudgetConfig(q, c, s) :
                      q \in QueryLimits, c \in CreditLimits, s \in SchemaLimits}
    /\ usage = ZeroUsage
    /\ last = NoResponse
    /\ req = IdleRequests

\* How the answers of execute_query and get_table_schema begin: denied by the
\* budget, failed at the platform, done.
DeniedTexts == {"EXECUTION DENIED", "SCHEMA ACCESS DENIED"}
UpstreamErrorTexts == {"Error executing query", "Error fetching schema"}
StartedTexts == {"Execution started", "Schema for"}

\* history: one more platform call of a budgeted tool has succeeded
CountStarted(response) ==
    started' = started + (IF response.text \in StartedTexts THEN 1 ELSE 0)

\* Nothing asked of the result tools, the classifier or the outlier rule yet.
NoAnswer ==
    [tool |-> "none", job_id |-> "", state |-> "", results |-> 0, text |-> "",
     detail |-> ""]
NoDiag ==
    [error_message |-> "", query_sql |-> "",
     analysis |-> [error_type |-> "", suggestion |-> Absent], text |-> ""]
NoSeries == [values |-> <<>>, ddof |-> 0]
NotAnalysed == {0}

ExtInit ==
    /\ answer = NoAnswer
    /\ diag = NoDiag
    /\ series = NoSeries
    /\ outliers = NotAnalysed
    /\ started = 0

Init ==
    /\ BudgetInit
    /\ CacheInit
    /\ ServiceInit
    /\ DataInit
    /\ ExtInit

Next ==
    \/ \E o \in ExecuteOutcomes :
           execute_query(o) /\ CountStarted(last')
               /\ UNCHANGED <<cacheVars, svcVars, dataVars, toolVars>>
    \/ \E o \in SchemaOutcomes :
           get_table_schema(o) /\ CountStarted(last')
               /\ UNCHANGED <<cacheVars, svcVars, dataVars, toolVars>>
    \/ get_session_budget /\ UNCHANGED <<cacheVars, svcVars, dataVars, extVars>>

Spec == Init /\ [][Next]_vars

(***************************************************************************)
(* The same two tools when the host runs requests concurrently: each       *)
(* request takes the three statements of its try block one at a time, and  *)
(* the statements of different requests interleave.  Nothing in main.py    *)
(* holds a lock across them.                                               *)
(***************************************************************************)
Tools == {"execute_query", "get_table_schema"}
EstimatedCost(tool) == IF tool = "execute_query" THEN 0 ELSE 1
TrackedCost(tool) == IF tool = "execute_query" THEN 0 ELSE 1
DeniedText(tool) ==
    IF tool = "execute_query" THEN "EXECUTION DENIED" ELSE "SCHEMA ACCESS DENIED"
ErrorText(tool) ==
    IF tool = "execute_query" THEN "Error executing query" ELSE "Error fetching schema"
StartedText(tool) ==
    IF tool = "execute_query" THEN "Execution started" ELSE "Schema for"

\* 1. budget_manager.check_can_execute_query(estimated_cost=...)
Check(r, tool) ==
    /\ req[r].pc = "idle"
    /\ LET chk == check_can_execute_query(usage, limits, EstimatedCost(tool))
       IN  IF chk.ok
           THEN /\ req' = [req EXCEPT ![r] = [pc |-> "checked", tool |-> tool]]
                /\ UNCHANGED last
           ELSE /\ last' = Response(tool, DeniedText(tool),
                               [dimension |-> chk.dimension, excess |-> chk.excess],
                               0, usage, NoStatus)
                /\ UNCHANGED req
    /\ UNCHANGED <<limits, usage>>

\* 2. dune_service.execute_query(...) / dune_service.get_table_schema(...)
Upstream(r, outcome) ==
    /\ req[r].pc = "checked"
    /\ IF outcome = "raise"
       THEN /\ req' = [req EXCEPT ![r] = [pc |-> "idle", tool |-> "none"]]
            /\ last' = Response(req[r].tool, ErrorText(req[r].tool), NoReason, 1,
                           usage, NoStatus)
       ELSE /\ req' = [req EXCEPT ![r].pc = "called"]
            /\ UNCHANGED last
    /\ UNCHANGED <<limits, usage>>

\* 3. budget_manager.track_execution(cost=...)
Track(r) ==
    /\ req[r].pc = "called"
    /\ usage' = track_execution(usage, TrackedCost(req[r].tool))
    /\ req' = [req EXCEPT ![r] = [pc |-> "idle", tool |-> "none"]]
    /\ last' = Response(req[r].tool, StartedText(req[r].tool), NoReason, 1,
                   usage, NoStatus)
    /\ UNCHANGED limits

NextConc ==
    \/ \E r \in Req, tool \in Tools :
           Check(r, tool) /\ UNCHANGED <<cacheVars, svcVars, dataVars, extVars>>
    \/ \E r \in Req, o \in ExecuteOutcomes :
           Upstream(r, o) /\ started' = started + (IF o = "raise" THEN 0 ELSE 1)
               /\ UNCHANGED <<cacheVars, svcVars, dataVars, toolVars>>
    \/ \E r \in Req :
           Track(r) /\ UNCHANGED <<cacheVars, svcVars, dataVars, extVars>>

SpecConc == Init /\ [][NextConc]_vars

NextData ==
    \/ ProcessResults(PREVIEW_LIMIT) /\ UNCHANGED <<budgetVars, cacheVars, svcVars, extVars>>
    \/ \E j \in JobIds :
           ExportToCsv(j) /\ UNCHANGED <<budgetVars, cacheVars, svcVars, extVars>>

\* The session with the limits of config.py and a result payload at hand.
InitData ==
    /\ BudgetInit
    /\ limits = DefaultLimits
    /\ CacheInit
    /\ ServiceInit
    /\ payload \in Payloads
    /\ DataIdle
    /\ ExtInit

SpecData == InitData /\ [][NextData]_vars

\* The session with the limits of config.py.
InitDefault ==
    /\ Init
    /\ limits = DefaultLimits

SpecService == InitDefault /\ [][NextService]_vars

SpecCache == InitDefault /\ [][NextCache]_vars

(***************************************************************************)
(* The result tools of src/main.py: get_job_results_summary and            *)
(* analyze_results.  `status` and `result` are what the platform does if   *)
(* it is asked for the job's status and for its results; `payload` is the  *)
(* result object the platform holds.                                       *)
(***************************************************************************)
\* A tool's answer: the status get_status returned in this invocation, how
\* often the platform was asked for the job's results, how the text begins
\* and the exception text it ends with.
Answer(tool, job_id, state, results, text, detail) ==
    [tool |-> tool, job_id |-> job_id, state |-> state, results |-> results,
     text |-> text, detail |-> detail]

\* `state != "QUERY_STATE_COMPLETED" and state != "COMPLETED"`
NotComplete(state) == state # "QUERY_STATE_COMPLETED" /\ state # "COMPLETED"

NotCompleteText(state, advice) ==
    "Job is not complete (Status: " \o state \o "). " \o advice

\* mutant of get_job_results_summary: the results are read whatever the status
get_job_results_summary_unguarded(job_id, status, result) ==
    /\ get_status(job_id, status)
    /\ IF svc'.result = Raised
       THEN /\ answer' = Answer("get_job_results_summary", job_id, Raised, 0,
                             "Error fetching results", Raised)
            /\ UNCHANGED summary
       ELSE IF result = "raise"
       THEN /\ answer' = Answer("get_job_results_summary", job_id, svc'.result, 1,
                             "Error fetching results", Raised)
            /\ UNCHANGED summary
       ELSE /\ summary' = process_results(payload, PREVIEW_LIMIT)
            /\ answer' = Answer("get_job_results_summary", job_id, svc'.result, 1,
                             "Row Count", "")
    /\ UNCHANGED <<payload, files, exported, diag, series, outliers, started>>

get_job_results_summary(job_id, status, result) ==
    /\ get_status(job_id, status)
    /\ IF svc'.result = Raised
       THEN \* except Exception: get_status raised
            /\ answer' = Answer("get_job_results_summary", job_id, Raised, 0,
                             "Error fetching results", Raised)
            /\ UNCHANGED summary
       ELSE IF NotComplete(svc'.result)
       THEN /\ answer' = Answer("get_job_results_summary", job_id, svc'.result, 0,
                             NotCompleteText(svc'.result, "Please wait."), "")
            /\ UNCHANGED summary
       ELSE IF result = "raise"
       THEN \* except Exception: get_result raised
            /\ answer' = Answer("get_job_results_summary", job_id, svc'.result, 1,
                             "Error fetching results", Raised)
            /\ UNCHANGED summary
       ELSE /\ summary' = process_results(payload, PREVIEW_LIMIT)
            /\ answer' =
                   IF "columns" \in summary'.keys
                   THEN Answer("get_job_results_summary", job_id, svc'.result, 1,
                            "Row Count", "")
                   ELSE \* processed['columns'] raises KeyError
                        Answer("get_job_results_summary", job_id, svc'.result, 1,
                            "Error fetching results", "'columns'")
    /\ UNCHANGED <<payload, files, exported, diag, series, outliers, started>>

\* DuneService has no method analyze_result: the call at main.py:237 raises
\* AttributeError, which `except Exception` turns into the tool's answer.
NoAnalyzeResult == "'DuneService' object has no attribute 'analyze_result'"

analyze_results(job_id, status) ==
    /\ get_status(job_id, status)
    /\ answer' =
           IF svc'.result = Raised
           THEN Answer("analyze_results", job_id, Raised, 0,
                    "Error analyzing results", Raised)
           ELSE IF NotComplete(svc'.result)
           THEN Answer("analyze_results", job_id, svc'.result, 0,
                    NotCompleteText(svc'.result, "Cannot analyze."), "")
           ELSE Answer("analyze_results", job_id, svc'.result, 0,
                    "Error analyzing results", NoAnalyzeResult)
    /\ UNCHANGED <<dataVars, diag, series, outliers, started>>

\* What get_result may return for a job: a response without rows, with one
\* row of one column, with rows = None, or without a result.
ToolResults ==
    {[shape |-> "response", rows |-> rs] :
        rs \in {<<>>} \cup {<<row>> : row \in {r \in RowDicts : Len(r) = 1}}}
        \cup {[shape |-> sh, rows |-> <<>>] : sh \in {"rows_none", "result_none"}}

NextTools ==
    \/ \E j \in JobIds, st \in ServiceOutcomes, rs \in ServiceOutcomes :
           get_job_results_summary(j, st, rs) /\ UNCHANGED budgetVars
    \/ \E j \in JobIds, st \in ServiceOutcomes :
           analyze_results(j, st) /\ UNCHANGED budgetVars
    \/ \E j \in JobIds, st \in ExecutionStates :
           JobStep(j, st) /\ UNCHANGED <<budgetVars, dataVars, extVars>>
    \/ Tick /\ UNCHANGED <<budgetVars, svcVars, dataVars, extVars>>

InitTools ==
    /\ BudgetInit
    /\ limits = DefaultLimits
    /\ CacheInit
    /\ ServiceInit
    /\ payload \in ToolResults
    /\ DataIdle
    /\ ExtInit

SpecTools == InitTools /\ [][NextTools]_vars

(***************************************************************************)
(* The outlier rule of analyze_results ("Z-score > 3", main.py).  The code *)
(* that computes it is not part of the sources; the rule is taken as       *)
(* written: |value - mean| / std_dev > 3 over the whole column, nothing    *)
(* flagged when std_dev is zero.  std_dev is the population (ddof = 0) or  *)
(* the sample (ddof = 1) standard deviation; the rule does not say which.  *)
(***************************************************************************)
Z_THRESHOLD == 3

\* The column of the example: values near 10 and one value 1000, ten values
\* in all, and the same with one more value near 10.
ClusterValues == {9, 10, 11}
Extreme == 1000
TenValues == 10
ClusterSizes == {TenValues - 1, TenValues}

InsertAt(seq, p, x) == SubSeq(seq, 1, p - 1) \o <<x>> \o SubSeq(seq, p, Len(seq))

\* The rule does not look at the order of the values: the values near 10 are
\* drawn in non-decreasing order, the extreme value at any position.
Clusters ==
    UNION {{c \in [1..k -> ClusterValues] : \A i \in 1..(k - 1) : c[i] <= c[i + 1]} :
              k \in ClusterSizes}

SeriesInputs ==
    UNION {{[values |-> InsertAt(c, p, Extreme), ddof |-> d] :
               p \in 1..(Len(c) + 1), d \in {0, 1}} : c \in Clusters}

RECURSIVE SumSquares(_)
SumSquares(seq) ==
    IF seq = <<>> THEN 0 ELSE Head(seq) * Head(seq) + SumSquares(Tail(seq))

\* n * (value - mean), and n * n * (the population variance)
Deviation(values, i) == Len(values) * values[i] - SeqSum(values)
Spread(values) ==
    Len(values) * SumSquares(values) - SeqSum(values) * SeqSum(values)

\* mutant of IsOutlier: a z-score of exactly 3 is flagged too
IsOutlier_at_threshold(values, i, ddof) ==
    (Len(values) - ddof) * Deviation(values, i) * Deviation(values, i)
        >= Z_THRESHOLD * Z_THRESHOLD * Len(values) * Spread(values)
    /\ Spread(values) > 0

\* |values[i] - mean| / std_dev > 3, squared and cleared of its divisions:
\* std_dev^2 = Spread / (n * (n - ddof)), (value - mean)^2 = Deviation^2 / n^2
IsOutlier(values, i, ddof) ==
    (Len(values) - ddof) * Deviation(values, i) * Deviation(values, i)
        > Z_THRESHOLD * Z_THRESHOLD * Len(values) * Spread(values)

detect_outliers(values, ddof) ==
    {i \in 1..Len(values) : IsOutlier(values, i, ddof)}

DetectOutliers ==
    /\ outliers' = detect_outliers(series.values, series.ddof)
    /\ UNCHANGED <<answer, diag, series, started>>

NextOutliers ==
    DetectOutliers /\ UNCHANGED <<budgetVars, cacheVars, svcVars, dataVars>>

InitOutliers ==
    /\ BudgetInit
    /\ limits = DefaultLimits
    /\ CacheInit
    /\ ServiceInit
    /\ DataInit
    /\ answer = NoAnswer
    /\ diag = NoDiag
    /\ series \in SeriesInputs
    /\ outliers = NotAnalysed
    /\ started = 0

SpecOutliers == InitOutliers /\ [][NextOutliers]_vars

(***************************************************************************)
(* ErrorAnalyzer.analyze (src/services/error_analyzer.py is not part of    *)
(* the sources; the classifier follows its contract: a fixed, ordered list *)
(* of failure signatures, the first that matches wins, no match gives      *)
(* "unclassified" without a suggestion) and the analyze_query_error tool   *)
(* of src/main.py that reports its diagnosis.                              *)
(***************************************************************************)
UpperCase == "ABCDEFGHIJKLMNOPQRSTUVWXYZ"
LowerCase == "abcdefghijklmnopqrstuvwxyz"

FoldChar(ch) ==
    LET at == {i \in 1..Len(UpperCase) : SubSeq(UpperCase, i, i) = ch}
    IN  IF at = {} THEN ch
        ELSE SubSeq(LowerCase, CHOOSE i \in at : TRUE, CHOOSE i \in at : TRUE)

\* text.lower()
RECURSIVE Fold(_)
Fold(text) ==
    IF Len(text) = 0 THEN ""
    ELSE FoldChar(SubSeq(text, 1, 1)) \o Fold(SubSeq(text, 2, Len(text)))

\* the first position from `from` on at which `pattern` occurs in text, or 0
RECURSIVE Find(_, _, _)
Find(text, pattern, from) ==
    IF from + Len(pattern) - 1 > Len(text) THEN 0
    ELSE IF SubSeq(text, from, from + Len(pattern) - 1) = pattern THEN from
    ELSE Find(text, pattern, from + 1)

\* the fragments of a signature occur in text from `from` on, in their order
RECURSIVE MatchesFrom(_, _, _)
MatchesFrom(text, fragments, from) ==
    IF fragments = <<>> THEN TRUE
    ELSE LET at == Find(text, Head(fragments), from)
         IN  at # 0 /\ MatchesFrom(text, Tail(fragments), at + Len(Head(fragments)))

\* The failure signatures in their order, each with its category and its
\* suggestion template.
Signatures ==
    << [category |-> "unknown-column", fragments |-> <<"column", "not found">>,
        template |-> "Check the column name against the table schema"],
       [category |-> "unknown-table", fragments |-> <<"table", "not found">>,
        template |-> "Check the table name"],
       [category |-> "syntax-error", fragments |-> <<"syntax error">>,
        template |-> "Check the SQL near the reported position"],
       [category |-> "permission-denied", fragments |-> <<"permission denied">>,
        template |-> "Check the API key's access to the table"],
       [category |-> "timeout", fragments |-> <<"timeout">>,
        template |-> "Narrow the query and run it again"] >>

Matches(error_text, sig) == MatchesFrom(Fold(error_text), sig.fragments, 1)

Matching(error_text) ==
    {i \in 1..Len(Signatures) : Matches(error_text, Signatures[i])}

\* the identifier the error text quotes after the signature's first word,
\* or ""
QuotedName(error_text, sig) ==
    LET start == Find(Fold(error_text), Head(sig.fragments), 1)
        open == Find(error_text, "'", start)
        close == IF open = 0 THEN 0 ELSE Find(error_text, "'", open + 1)
    IN  IF close = 0 THEN "" ELSE SubSeq(error_text, open + 1, close - 1)

Diagnosis(sig, error_text) ==
    [error_type |-> sig.category,
     suggestion |->
         IF sig.category \in {"unknown-column", "unknown-table"}
                /\ QuotedName(error_text, sig) # ""
         THEN sig.template \o ": '" \o QuotedName(error_text, sig) \o "'"
         ELSE sig.template]

Unclassified == [error_type |-> "unclassified", suggestion |-> Absent]

classify(error_text, sql_text) ==
    IF Matching(error_text) = {} THEN Unclassified
    ELSE Diagnosis(Signatures[Min(Matching(error_text))], error_text)

\* What the tool may be given: an error message of the platform, with or
\* without a position before it and a clause after it, and the query's SQL.
ErrorPrefixes == {"", "Error: ", "line 1:8: "}
ErrorCores ==
    {"Column 'foo' not found", "Table 'bar' not found",
     "Table 'bar': Column 'foo' not found", "COLUMN NOT FOUND",
     "Syntax error at or near 'FORM'", "Permission denied", "Query timeout",
     "Out of memory", ""}
ErrorSuffixes == {"", " in query 42"}
ErrorTexts ==
    {pre \o core \o suf :
        pre \in ErrorPrefixes, core \in ErrorCores, suf \in ErrorSuffixes}
SqlTexts == {"", "SELECT foo FROM bar", "SELECT foo FORM bar"}

NoSuggestionLine ==
    "No specific suggestion found. Please check the SQL syntax and schema manually."

\* mutant of analyze_query_error: nothing is said when there is no suggestion
analyze_query_error_silent(error_message, query_sql) ==
    LET analysis == classify(error_message, query_sql)
    IN  /\ diag' = [error_message |-> error_message, query_sql |-> query_sql,
                    analysis |-> analysis,
                    text |-> IF Truthy(analysis.suggestion)
                             THEN "Error Type: " \o analysis.error_type \o "\n"
                                      \o "Suggestion: " \o analysis.suggestion
                             ELSE "Error Type: " \o analysis.error_type]
        /\ UNCHANGED <<answer, series, outliers, started>>

analyze_query_error(error_message, query_sql) ==
    LET analysis == classify(error_message, query_sql)
        response == <<"Error Type: " \o analysis.error_type>>
        lines == IF Truthy(analysis.suggestion)
                 THEN Append(response, "Suggestion: " \o analysis.suggestion)
                 ELSE Append(response, NoSuggestionLine)
    IN  /\ diag' = [error_message |-> error_message, query_sql |-> query_sql,
                    analysis |-> analysis,
                    text |-> lines[1] \o "\n" \o lines[2]]
        /\ UNCHANGED <<answer, series, outliers, started>>

\* The tool is given the error message and the SQL at hand.
NextClassify ==
    analyze_query_error(diag.error_message, diag.query_sql)
        /\ UNCHANGED <<budgetVars, cacheVars, svcVars, dataVars>>

InitClassify ==
    /\ BudgetInit
    /\ limits = DefaultLimits
    /\ CacheInit
    /\ ServiceInit
    /\ DataInit
    /\ answer = NoAnswer
    /\ diag \in {[error_message |-> e, query_sql |-> q,
                  analysis |-> NoDiag.analysis, text |-> ""] :
                    e \in ErrorTexts, q \in SqlTexts}
    /\ series = NoSeries
    /\ outliers = NotAnalysed
    /\ started = 0

SpecClassify == InitClassify /\ [][NextClassify]_vars

(***************************************************************************)
(* Properties of the session budget.                                       *)
(***************************************************************************)
\* C1: with requests processed one at a time, every reachable state has
\* queries used <= max queries, credits used <= max credits and schema calls
\* used <= max schema calls.
C1_UsageWithinLimits ==
    /\ usage.queries <= limits.queries
    /\ usage.credits <= limits.credits
    /\ usage.schema_calls <= limits.schema_calls

\* A commit has just brought the query count and the credit total to their limits.
C1_Witness ==
    /\ last.text = "Schema for"
    /\ usage = track_execution(last.pre, 1)
    /\ usage.queries = limits.queries
    /\ usage.credits = limits.credits

\* C2: a request whose budget check ran and was not followed by a commit (it
\* was denied, or it was granted and the platform call failed) leaves status()
\* as it was before the request; status() itself reports the usage without
\* changing it.
C2_AuthorizeLeavesStatus ==
    /\ last.text \in DeniedTexts \cup UpstreamErrorTexts =>
           BudgetManager_get_status(usage, limits)
               = BudgetManager_get_status(last.pre, limits)
    /\ last.tool = "get_session_budget" =>
           /\ last.status = BudgetManager_get_status(usage, limits)
           /\ usage = last.pre

\* The check granted a request after earlier commits, the platform call failed
\* and nothing was committed.
C2_Witness ==
    /\ last.text = "Error executing query"
    /\ last.upstream = 1
    /\ last.pre.queries > 0
    /\ usage = last.pre

\* C3: once queries used equals max queries the check for a query execution is
\* denied for every estimated cost, the denial names the queries dimension, and
\* execute_query answers 'EXECUTION DENIED' without calling the platform.
C3_QueryLimitDenied ==
    /\ usage.queries = limits.queries =>
           \A c \in Costs :
               LET chk == check_can_execute_query(usage, limits, c)
               IN  ~chk.ok /\ chk.dimension = "queries"
    /\ (last.tool = "execute_query" /\ last.pre.queries = limits.queries) =>
           /\ last.text = "EXECUTION DENIED"
           /\ last.reason.dimension = "queries"
           /\ last.reason.excess = 1
           /\ last.upstream = 0
           /\ usage = last.pre

\* Default limits, five queries committed, the sixth execute_query denied.
C3_Witness ==
    /\ limits = DefaultLimits
    /\ usage.queries = MAX_QUERIES
    /\ last.tool = "execute_query"
    /\ last.text = "EXECUTION DENIED"
    /\ last.reason.dimension = "queries"

\* C4: under concurrent dispatch the check-then-commit sequences of two
\* requests do not interleave, so two requests are never both granted the last
\* query slot and queries used never exceeds max queries.
C4_NoOverrunConcurrent ==
    usage.queries <= limits.queries

\* C5: a commit raises the query count by exactly 1 and the credit total by the
\* cost committed (0 in execute_query, 1 in get_table_schema), leaves the
\* schema-call count and the limits alone; no usage total ever decreases.
C5_CommitEffect ==
    [][ /\ limits' = limits
        /\ usage'.queries >= usage.queries
        /\ usage'.credits >= usage.credits
        /\ usage'.schema_calls >= usage.schema_calls
        /\ last'.text = "Execution started" => usage' = track_execution(usage, 0)
        /\ last'.text = "Schema for" => usage' = track_execution(usage, 1)
        /\ last'.text \in StartedTexts =>
               /\ usage'.queries = usage.queries + 1
               /\ usage'.schema_calls = usage.schema_calls
        /\ last'.text \notin StartedTexts => usage' = usage
      ]_vars

\* get_table_schema has committed one credit on top of earlier usage.
C5_Witness ==
    /\ last.text = "Schema for"
    /\ last.pre.queries > 0
    /\ usage.queries = last.pre.queries + 1
    /\ usage.credits = last.pre.credits + 1

\* C6: a successful get_table_schema raises schema calls used by 1 and leaves
\* queries used unchanged, and get_table_schema is denied once schema calls
\* used has reached max schema calls.
C6_SchemaCallsMetered ==
    /\ (last.tool = "get_table_schema" /\ last.text = "Schema for") =>
           /\ usage.schema_calls = last.pre.schema_calls + 1
           /\ usage.queries = last.pre.queries
    /\ (last.tool = "get_table_schema"
            /\ last.pre.schema_calls >= limits.schema_calls) =>
           last.text = "SCHEMA ACCESS DENIED"

\* C14: in execute_query and get_table_schema, when the platform call raises
\* after a successful budget check, track_execution is not called: the three
\* usage totals stay as they were before the request, the platform was called
\* exactly once, and the tool answers with its error text; the totals change
\* only in a request whose platform call was made and succeeded.
C14_CommitOnlyAfterPerformed ==
    [][ /\ last'.text \in UpstreamErrorTexts =>
               /\ check_can_execute_query(usage, limits,
                      IF last'.tool = "execute_query" THEN 0 ELSE 1).ok
               /\ last'.upstream = 1
               /\ usage' = usage
               /\ started' = started
        /\ usage' # usage =>
               /\ last'.text \in StartedTexts
               /\ last'.upstream = 1
               /\ started' = started + 1
      ]_vars

\* get_table_schema passed the check after an earlier schema call had been
\* committed, the platform call raised, and nothing was committed for it.
C14_Witness ==
    /\ last.tool = "get_table_schema"
    /\ last.text = "Error fetching schema"
    /\ last.upstream = 1
    /\ last.pre.credits > 0
    /\ usage = last.pre
    /\ started = usage.queries

\* C15: with requests processed one at a time, a request whose budget check is
\* denied makes no call to the platform, and the number of platform calls
\* that execute_query and get_table_schema made successfully never exceeds
\* max queries.
C15_DeniedMakesNoCall ==
    /\ last.text \in DeniedTexts =>
           /\ last.upstream = 0
           /\ ~check_can_execute_query(last.pre, limits,
                   IF last.tool = "execute_query" THEN 0 ELSE 1).ok
    /\ started <= limits.queries

\* As many platform calls succeeded as max queries allows, through both
\* tools, and the next schema request was denied without a call.
C15_Witness ==
    /\ started = limits.queries
    /\ started > 1
    /\ usage.credits > 0
    /\ usage.credits < usage.queries
    /\ last.text = "SCHEMA ACCESS DENIED"
    /\ last.upstream = 0

(***************************************************************************)
(* Properties of the cache.                                                *)
(***************************************************************************)
\* C7: get(ns, k) returns v exactly when the most recent set(ns, k, v) is no
\* older than the namespace's time-to-live, and absent when the key was never
\* set or the time-to-live has elapsed since the most recent set; a set
\* replaces the value and restarts the age from zero.
C7_GetWithinTtl ==
    LET ck == <<got.namespace, got.key>>
    IN  /\ got.op = "get" =>
               /\ got.value # Absent <=>
                      /\ lastSet[ck] # NoEntry
                      /\ now - lastSet[ck].at <= TimeToLive(got.namespace)
               /\ got.value # Absent => got.value = lastSet[ck].value
        /\ got.op = "set" =>
               /\ cache[ck] = [value |-> got.value, at |-> now]
               /\ cache_get(cache, got.namespace, got.key, now) = got.value
               /\ \A t \in now..MaxTime :
                      cache_get(cache, got.namespace, got.key, t) = got.value
                          <=> t - now <= TimeToLive(got.namespace)

\* A key was set after the clock had advanced, and a get at the last tick of
\* the entry's life returns the value.
C7_Witness ==
    LET ck == <<got.namespace, got.key>>
    IN  /\ got.op = "get"
        /\ got.namespace = "query"
        /\ got.value = "v2"
        /\ lastSet[ck].at > 0
        /\ now - lastSet[ck].at = QueryTtl

\* C8: get_status writes a status into the cache only when it is COMPLETED,
\* FAILED or CANCELLED; while a job is not finished every get_status call asks
\* the platform and caches nothing, and a get_status that returns after the
\* platform reports a finished state returns that state.
C8_OnlyFinishedStatusCached ==
    /\ [](\A j \in JobIds :
             cache[<<"status", j>>] # NoEntry =>
                 /\ cache[<<"status", j>>].value \in FinishedStates
                 /\ cache[<<"status", j>>].value = platform[j])
    /\ [][ (svc'.op = "get_status" /\ UNCHANGED <<platform, upstreamQuery, now>>) =>
               LET j == svc'.key
               IN  /\ platform[j] \notin FinishedStates =>
                          /\ svc'.upstream = 1
                          /\ svc'.result \in {platform[j], Raised}
                          /\ cache'[<<"status", j>>] = NoEntry
                   /\ (platform[j] \in FinishedStates /\ svc'.result # Raised) =>
                          svc'.result = platform[j]
         ]_vars

\* The platform was asked for a job that had finished, and the finished state
\* was returned and cached; the other job is still running and not cached.
C8_Witness ==
    /\ svc = ServiceCall("get_status", "1", "FAILED", 1)
    /\ cache[<<"status", "1">>] = [value |-> "FAILED", at |-> now]
    /\ now > 0
    /\ platform["2"] = "EXECUTING"
    /\ cache[<<"status", "2">>] = NoEntry

\* C18: after get_query(id) succeeded, or get_status(job) returned a finished
\* status, every further call with the same key within the time-to-live
\* returns the same value without a call to the platform; a call whose
\* platform call fails stores nothing, and a call that finds no live entry
\* asks the platform.
C18_RepeatedLookupsFromCache ==
    [][ (svc'.op \in {"get_query", "get_status"}
            /\ UNCHANGED <<platform, upstreamQuery, now>>) =>
           LET ns == IF svc'.op = "get_query" THEN "query" ELSE "status"
               ck == <<ns, svc'.key>>
               live == /\ cache[ck] # NoEntry
                       /\ now - cache[ck].at <= TimeToLive(ns)
               stored == [value |-> svc'.result, at |-> now]
           IN  /\ live => /\ svc'.upstream = 0
                          /\ svc'.result = cache[ck].value
                          /\ cache'[ck] = cache[ck]
               /\ ~live => svc'.upstream = 1
               /\ (svc'.upstream = 1 /\ svc'.result = Raised) => cache'[ck] = NoEntry
               /\ (svc'.upstream = 1 /\ svc'.op = "get_query" /\ svc'.result # Raised)
                      => cache'[ck] = stored
               /\ (svc'.upstream = 1 /\ svc'.result \in FinishedStates)
                      => cache'[ck] = stored
      ]_vars

\* The query was fetched, then edited at the platform, and a later get_query
\* within the time-to-live returned the text first fetched, from the cache.
C18_Witness ==
    /\ svc = ServiceCall("get_query", "1", "sql_v1", 0)
    /\ upstreamQuery[1] = "sql_v2"
    /\ cache[<<"query", "1">>].value = "sql_v1"
    /\ now = cache[<<"query", "1">>].at + QueryTtl

InputValue(row, column) ==
    IF DictHas(row, column) THEN DictGet(row, column) ELSE None

\* A re-read cell against the value exported, up to stringification: null is
\* the empty field, a string is itself, a number is a numeral of the same
\* value (an integer of a column that also holds nulls is written as a float).
SameCell(text, value) ==
    IF value = None THEN text = ""
    ELSE IF value.t = "int" THEN text \in {value.v, value.v \o ".0"}
    ELSE text = value.v

\* The re-read table has one record per row after its header, the header is
\* `columns`, and every cell is the row's value for its column.
RoundTrip(rows, table, columns) ==
    /\ Len(table) = Len(rows) + 1
    /\ table[1] = columns
    /\ \A r \in 1..Len(rows) :
           /\ Len(table[r + 1]) = Len(columns)
           /\ \A c \in 1..Len(columns) :
                  SameCell(table[r + 1][c], InputValue(rows[r], columns[c]))

\* Where a key first appears: <<row, position in that row>>.
FirstSeen(rows, key) ==
    LET r == Min({i \in 1..Len(rows) : DictHas(rows[i], key)})
    IN  <<r, CHOOSE i \in 1..Len(rows[r]) : rows[r][i][1] = key>>

\* `header` lists every key of every row once, in order of first appearance.
IsUnionHeader(header, rows) ==
    /\ SeqRange(header) = UNION {SeqRange(DictKeys(rows[r])) : r \in 1..Len(rows)}
    /\ \A i, j \in 1..Len(header) :
           i < j =>
               LET a == FirstSeen(rows, header[i])
                   b == FirstSeen(rows, header[j])
               IN  a[1] < b[1] \/ (a[1] = b[1] /\ a[2] < b[2])

ExportOutcome ==
    LET rows == ExtractRows(payload)
    IN  /\ rows = <<>> =>
               /\ exported \in {"", "No data to export"}
               /\ \A f \in FilePaths : files[f] = NoFile
        /\ (rows # <<>> /\ exported # "") =>
               /\ exported \in FilePaths
               /\ files[exported] # NoFile

MissingIsNull(rows, columns, preview, table) ==
    \A r \in 1..Len(rows), c \in 1..Len(columns) :
        ~DictHas(rows[r], columns[c]) =>
            /\ r <= Len(preview) => IsNA(preview[r][c][2])
            /\ table # <<>> => table[r + 1][c] = ""

ExportedTable == IF exported \in FilePaths THEN ParseCsv(files[exported]) ELSE <<>>

PositionsOf(values, x) == {i \in 1..Len(values) : values[i] = x}

\* C11 as stated: under the rule, in a ten-value column of nine values near
\* 10 and one value 1000 exactly the value 1000 is flagged.
C11_ExtremeOfTenFlagged ==
    (outliers # NotAnalysed /\ Len(series.values) = TenValues) =>
        outliers = PositionsOf(series.values, Extreme)

\* C11, amended: in that ten-value column the rule flags nothing, neither the
\* value 1000 (whose z-score is at most 3) nor a value near 10; with ten
\* values near 10 and one value 1000 it flags exactly the value 1000.
C11_ExtremeFlaggedFromEleven ==
    outliers # NotAnalysed =>
        /\ Len(series.values) = TenValues => outliers = {}
        /\ Len(series.values) = TenValues + 1 =>
               outliers = PositionsOf(series.values, Extreme)

\* The rule was applied, with the population standard deviation, to nine
\* values 10 and the value 1000, whose z-score is exactly 3.
C11_Witness ==
    /\ outliers = {}
    /\ series.ddof = 0
    /\ series.values = <<10, 10, 10, 10, 10, 10, 10, 10, 10, 1000>>

(***************************************************************************)
(* Properties of the error classifier.                                     *)
(***************************************************************************)
Categories == {Signatures[i].category : i \in 1..Len(Signatures)} \cup {"unclassified"}

\* C13: classify returns a diagnosis for every (error_text, sql_text); error
\* text containing "Column 'foo' not found" is unknown-column with a
\* non-empty suggestion; error text matching no signature is unclassified
\* with no suggestion, and analyze_query_error reports it with its
\* "No specific suggestion found" line.
C13_ClassifyTotal ==
    diag.text # "" =>
        /\ diag.analysis = classify(diag.error_message, diag.query_sql)
        /\ diag.analysis.error_type \in Categories
        /\ Find(diag.error_message, "Column 'foo' not found", 1) # 0 =>
               /\ diag.analysis.error_type = "unknown-column"
               /\ diag.analysis.suggestion # Absent
               /\ Len(diag.analysis.suggestion) > 0
        /\ (\A i \in 1..Len(Signatures) :
               ~Matches(diag.error_message, Signatures[i])) =>
               /\ diag.analysis = Unclassified
               /\ diag.text = "Error Type: unclassified\n" \o NoSuggestionLine
        /\ diag.analysis.error_type # "unclassified" =>
               Find(diag.text, "Suggestion: ", 1) # 0

\* An error text that names a table before the column it misses was
\* classified by its first matching signature.
C13_Witness ==
    /\ diag.error_message = "line 1:8: Table 'bar': Column 'foo' not found"
    /\ diag.analysis.error_type = "unknown-column"
    /\ diag.text = "Error Type: unknown-column\nSuggestion: Check the column name against the table schema: 'foo'"

(***************************************************************************)
(* Properties of the result tools.                                         *)
(***************************************************************************)
\* C16: get_job_results_summary, called for a completed job whose result has
\* no rows and whose status and results the platform delivers, answers with
\* the no-data result (row count 0, empty preview) and not with an error
\* message.
C16_EmptyResultSummarised ==
    (/\ answer.tool = "get_job_results_summary"
     /\ answer.state = "COMPLETED"
     /\ answer.results = 1
     /\ answer.detail # Raised
     /\ ExtractRows(payload) = <<>>) =>
        /\ answer.text = "Row Count"
        /\ summary.row_count = 0
        /\ summary.preview = <<>>

\* C17: get_job_results_summary and analyze_results ask the platform for a
\* job's results only when get_status, in the same invocation, returned
\* COMPLETED; for every other status, FAILED and CANCELLED included, they
\* answer that the job is not complete and ask for no results.
C17_ResultsOnlyWhenCompleted ==
    answer.tool \in {"get_job_results_summary", "analyze_results"} =>
        /\ answer.results > 0 => answer.state \in {"COMPLETED", "QUERY_STATE_COMPLETED"}
        /\ answer.state \in ExecutionStates \ {"COMPLETED"} =>
               /\ answer.results = 0
               /\ answer.text =
                      NotCompleteText(answer.state,
                          IF answer.tool = "analyze_results"
                          THEN "Cannot analyze." ELSE "Please wait.")
        /\ answer.state \in {"COMPLETED", "QUERY_STATE_COMPLETED"} =>
               answer.text \in {"Row Count", "Error fetching results",
                                "Error analyzing results"}

\* A failed job's summary was asked for after its status had been cached: the
\* answer is the not-complete message and no results were requested.
C17_Witness ==
    /\ answer.tool = "get_job_results_summary"
    /\ answer.job_id = "2"
    /\ answer.state = "FAILED"
    /\ svc.upstream = 0
    /\ answer.results = 0
    /\ answer.text = "Job is not complete (Status: FAILED). Please wait."

\* C19: for a job whose status is COMPLETED and whose status call succeeds,
\* analyze_results answers with the report of the analysis or with its
\* 'Analysis Failed' message, not with 'Error analyzing results'.
C19_AnalysisReported ==
    (answer.tool = "analyze_results" /\ answer.state = "COMPLETED") =>
        answer.text \in {"Analysis for Job", "Analysis Failed"}

====
